---- MODULE Spec2Model ----
(***************************************************************************)
(* BookingHTMLParser (src/src/doc_parser.py): a parser object that holds   *)
(* the path of a saved listing page and, once loaded, its parsed tree; an  *)
(* extraction pass folds over the row elements of the tree and emits one   *)
(* record per row.                                                         *)
(*                                                                         *)
(* A document is the sequence, in document order, of its row elements and  *)
(* its template elements.  Texts the code parses or case-folds (option     *)
(* texts, fill colours, meal descriptions) are sequences of one-character  *)
(* strings; texts the code only copies or compares (labels, ids) are       *)
(* strings.  An optional value is <<>> when absent and <<v>> when present. *)
(***************************************************************************)
EXTENDS Integers, Sequences, FiniteSets, TLC

VARIABLES file, soup, returned, lastOp, loads, passes, current_room_type

vars == <<file, soup, returned, lastOp, loads, passes, current_room_type>>

----------------------------------------------------------------------------
(* Bounds of the model.                                                    *)

MaxElems == 3

MaxOptions == 2

----------------------------------------------------------------------------
(* Optional values.                                                        *)

None == <<>>

Some(v) == <<v>>

----------------------------------------------------------------------------
(* Text: str.lower, the `in` test, str.split, str.replace.                 *)

UpperLetters == <<"A","B","C","D","E","F","G","H","I","J","K","L","M",
                  "N","O","P","Q","R","S","T","U","V","W","X","Y","Z">>

LowerLetters == <<"a","b","c","d","e","f","g","h","i","j","k","l","m",
                  "n","o","p","q","r","s","t","u","v","w","x","y","z">>

LowerChar(c) ==
    IF \E i \in 1..Len(UpperLetters) : UpperLetters[i] = c
    THEN LowerLetters[CHOOSE i \in 1..Len(UpperLetters) : UpperLetters[i] = c]
    ELSE c

Lower(s) == [i \in 1..Len(s) |-> LowerChar(s[i])]

Contains(s, sub) ==
    \E i \in 1..(Len(s) - Len(sub) + 1) : SubSeq(s, i, i + Len(sub) - 1) = sub

\* s.split(c)[-1]: what follows the last c, the whole text when there is none
AfterLast(s, c) ==
    IF \E i \in 1..Len(s) : s[i] = c
    THEN LET k == CHOOSE i \in 1..Len(s) :
                      s[i] = c /\ \A j \in (i+1)..Len(s) : s[j] # c
         IN  SubSeq(s, k + 1, Len(s))
    ELSE s

\* s.split(c)[0]: what precedes the first c, the whole text when there is none
BeforeFirst(s, c) ==
    IF \E i \in 1..Len(s) : s[i] = c
    THEN LET k == CHOOSE i \in 1..Len(s) :
                      s[i] = c /\ \A j \in 1..(i-1) : s[j] # c
         IN  SubSeq(s, 1, k - 1)
    ELSE s

\* s.replace(c, '')
Remove(s, c) == SelectSeq(s, LAMBDA x : x # c)

RECURSIVE Str(_)
\* the text as one string value
Str(cs) == IF cs = <<>> THEN "" ELSE cs[1] \o Str(Tail(cs))

\* option_text.split('$')[-1].split(')')[0].replace(',', '')
ParsePrice(option_text) ==
    Remove(BeforeFirst(AfterLast(option_text, "$"), ")"), ",")

----------------------------------------------------------------------------
(* Dictionaries: room_data[k] = v adds the key or overwrites it.           *)

EmptyDict == [k \in {} |-> 0]

SetItem(d, k, v) == [x \in DOMAIN d \cup {k} |-> IF x = k THEN v ELSE d[x]]

----------------------------------------------------------------------------
(* Documents.  A row element carries an optional room-type label, an       *)
(* optional quantity selector (the sequence of its option texts) and an    *)
(* optional breakfast icon (with an optional fill attribute).  A template  *)
(* element carries its id, whether it holds an <h3>Meals</h3> heading, and *)
(* the text of its first description block (one that follows the heading   *)
(* when there is a heading), if any.  Rows hold no description blocks and  *)
(* none of the description, price, policy and occupancy sub-elements.      *)

Row(label, select, icon) ==
    [kind |-> "row", label |-> label, select |-> select, icon |-> icon]

Template(id, meals, desc) ==
    [kind |-> "template", id |-> id, meals |-> meals, desc |-> desc]

Labels == {None, Some("N/A"), Some("Deluxe"), Some("Twin")}

Digits == <<"0","1","2","3","4","5","6","7","8","9">>

PriceSuffix == <<" ","(","$","6",",","5","8","4",")">>

\* the text of the option for k units: "k ($6,584)" or "k"; the zero option
\* is always plain
OptionText(k, priced) ==
    <<Digits[k + 1]>> \o (IF priced /\ k > 0 THEN PriceSuffix ELSE <<>>)

Options(n, priced) == [k \in 1..n |-> OptionText(k - 1, priced)]

Selects ==
    {None} \cup {Some(Options(n, priced)) : n \in 0..MaxOptions, priced \in BOOLEAN}

Green == <<"#","0","0","8","0","0","9">>

Red == <<"#","F","F","0","0","0","0">>

Icons == {None} \cup {Some([fill |-> f]) : f \in {None, Some(Green), Some(Red)}}

PolicyPrefix == <<"p","o","l","i","c","y","M","o","d","a","l","_">>

PolicyId == PolicyPrefix \o <<"1">>

OtherId == <<"m","o","d","a","l","_","1">>

BreakfastText ==
    <<"B","r","e","a","k","f","a","s","t"," ","i","n","c","l","u","d","e","d">>

LunchText == <<"L","u","n","c","h">>

Descriptions == {None, Some(BreakfastText), Some(LunchText)}

\* rows that vary in their label, with no selector or an empty one
LabelRows == {Row(l, s, None) : l \in Labels, s \in {None, Some(<<>>)}}

\* labelled rows that vary in their selector
UnitRows == {Row(Some("Deluxe"), s, None) : s \in Selects}

\* labelled rows that vary in their icon, the detail panels, and a template
\* of another id that holds a Meals heading and a description
MealElems ==
    {Row(Some("Deluxe"), None, i) : i \in Icons}
    \cup {Template(PolicyId, m, d) : m \in BOOLEAN, d \in Descriptions}
    \cup {Template(OtherId, TRUE, Some(BreakfastText))}

SeqsUpTo(S, n) == UNION {[1..k -> S] : k \in 0..n}

\* the documents: up to MaxElems elements, varying in one group of
\* sub-elements at a time
Docs ==
    SeqsUpTo(LabelRows, MaxElems) \cup SeqsUpTo(UnitRows, MaxElems)
    \cup SeqsUpTo(MealElems, MaxElems)

----------------------------------------------------------------------------
(* Tree queries.                                                           *)

\* soup.select('.js-rt-block-row.e2e-hprt-table-row'): the rows' positions,
\* in document order
room_rows(doc) ==
    LET idx == {i \in 1..Len(doc) : doc[i].kind = "row"}
        Rank(i) == Cardinality({j \in idx : j <= i})
    IN  [k \in 1..Cardinality(idx) |-> CHOOSE i \in idx : Rank(i) = k]

StartsWith(s, p) == Len(s) >= Len(p) /\ SubSeq(s, 1, Len(p)) = p

\* a lookup that stops at the next row
policy_modal_before_next_row(doc, i) ==
    LET hits == {j \in (i+1)..Len(doc) :
                    /\ doc[j].kind = "template" /\ StartsWith(doc[j].id, PolicyPrefix)
                    /\ \A q \in (i+1)..(j-1) : doc[q].kind # "row"}
    IN  IF hits = {} THEN 0 ELSE CHOOSE j \in hits : \A h \in hits : j <= h

\* row.find_next('template', id=lambda x: x and x.startswith('policyModal_')):
\* the position of the first such template after position i, 0 when none
policy_modal(doc, i) ==
    LET hits == {j \in (i+1)..Len(doc) :
                    doc[j].kind = "template" /\ StartsWith(doc[j].id, PolicyPrefix)}
    IN  IF hits = {} THEN 0 ELSE CHOOSE j \in hits : \A h \in hits : j <= h

\* policy_modal.find('h3', string='Meals')
meals_section(doc, t) == doc[t].meals

\* a lookup that stays inside the panel
meals_info_in_panel(doc, t) == doc[t].desc

\* meals_section.find_next('div', class_='bui-list__description'): the first
\* description block after the heading, in the template or after it
meals_info(doc, t) ==
    LET hits == {j \in t..Len(doc) : doc[j].kind = "template" /\ doc[j].desc # None}
    IN  IF hits = {} THEN None
        ELSE doc[CHOOSE j \in hits : \A h \in hits : j <= h].desc

----------------------------------------------------------------------------
(* One row of the extraction loop.                                         *)

\* room_type_elem.get_text(strip=True) if room_type_elem else 'N/A'
room_type_text(row) == IF row.label # None THEN row.label[1] ELSE "N/A"

\* a carry that is bound once, by the first label, and never again
carry_first_only(room_type, current) ==
    IF room_type # "N/A" /\ current = None THEN Some(room_type) ELSE current

\* the loop-local current_room_type after the if/else on room_type: bound to
\* the row's own text unless that is 'N/A', otherwise left as it was
carry_room_type(room_type, current) ==
    IF room_type # "N/A" THEN Some(room_type) ELSE current

\* description, price, cancellation_policy, max_occupancy of a row that has
\* none of these sub-elements; 'N/A'.split(':')[-1].strip() is 'N/A'
scalar_fields(room_data) ==
    LET d1 == SetItem(room_data, "description", "N/A")
        d2 == SetItem(d1, "price", "N/A")
        d3 == SetItem(d2, "cancellation_policy", "N/A")
    IN  SetItem(d3, "max_occupancy", Str(AfterLast(<<"N","/","A">>, ":")))

\* available_units and price_per_unit; exc is the exception raised, if any
unit_fields(row, room_data) ==
    IF row.select = None
    THEN [exc |-> None,
          room_data |-> SetItem(SetItem(room_data, "available_units", 0),
                                "price_per_unit", "N/A")]
    ELSE LET options == row.select[1]
             available_units == Len(options) - 1
             d1 == SetItem(room_data, "available_units", available_units)
         IN  IF options = <<>>
             THEN [exc |-> Some("IndexError"), room_data |-> d1]
             ELSE LET option_text == options[Len(options)]
                  IN  IF available_units > 0
                      THEN [exc |-> None,
                            room_data |->
                                IF Contains(option_text, <<"$">>)
                                THEN SetItem(d1, "price_per_unit",
                                             Str(ParsePrice(option_text)))
                                ELSE d1]
                      ELSE [exc |-> None,
                            room_data |-> SetItem(d1, "price_per_unit", "N/A")]

\* the inline signal: 'Yes' for an icon whose fill, lower-cased, is '#008009'
icon_breakfast(row) ==
    IF row.icon # None
    THEN LET fill == row.icon[1].fill
             fill_color == Lower(IF fill # None THEN fill[1] ELSE <<>>)
         IN  IF fill_color = Green THEN "Yes" ELSE "No"
    ELSE "No"

\* a merge in which the panel's text alone decides
panel_decides(inline, meals_text) ==
    IF Contains(Lower(meals_text), <<"b","r","e","a","k","f","a","s","t">>)
    THEN "Yes"
    ELSE "No"

\* the panel's verdict on breakfast_included, given the inline one
merge_breakfast(inline, meals_text) ==
    IF Contains(Lower(meals_text), <<"b","r","e","a","k","f","a","s","t">>)
       /\ inline = "No"
    THEN "Yes"
    ELSE inline

\* breakfast_included and meals_included of the row at position i
meal_fields(doc, i, room_data) ==
    LET modal == policy_modal(doc, i)
        d1 == SetItem(room_data, "breakfast_included", icon_breakfast(doc[i]))
    IN  IF modal # 0
        THEN IF meals_section(doc, modal)
             THEN LET info == meals_info(doc, modal)
                  IN  IF info # None
                      THEN SetItem(SetItem(d1, "meals_included", Str(info[1])),
                                   "breakfast_included",
                                   merge_breakfast(d1["breakfast_included"], info[1]))
                      ELSE SetItem(d1, "meals_included", "Not specified")
             ELSE SetItem(d1, "meals_included", "No meals included")
        ELSE SetItem(d1, "meals_included", "Not specified")

\* the loop body for the row at position i: the exception it raises, if any,
\* the record it appends otherwise, and current_room_type after it
extract_row(doc, i, current) ==
    LET text == room_type_text(doc[i])
        cur == carry_room_type(text, current)
    IN  IF text = "N/A" /\ current = None
        THEN [exc |-> Some("UnboundLocalError"), current |-> cur,
              room_data |-> EmptyDict]
        ELSE LET room_type == IF text # "N/A" THEN text ELSE current[1]
                 d1 == scalar_fields(SetItem(EmptyDict, "room_type", room_type))
                 u == unit_fields(doc[i], d1)
             IN  IF u.exc # None
                 THEN [exc |-> u.exc, current |-> cur, room_data |-> u.room_data]
                 ELSE [exc |-> None, current |-> cur,
                       room_data |-> meal_fields(doc, i, u.room_data)]

RECURSIVE extract_loop(_, _, _, _)
\* for row in room_rows: ... rooms.append(room_data)
extract_loop(doc, todo, current, rooms) ==
    IF todo = <<>>
    THEN [exc |-> None, rooms |-> rooms, current |-> current]
    ELSE LET r == extract_row(doc, Head(todo), current)
         IN  IF r.exc # None
             THEN [exc |-> r.exc, rooms |-> rooms, current |-> r.current]
             ELSE extract_loop(doc, Tail(todo), r.current,
                               Append(rooms, r.room_data))

\* a carry that outlives the pass
StaleRoomType == current_room_type

\* current_room_type at the start of a pass: a local, not yet bound
InitialRoomType == None

\* the pass over an already loaded tree
extract_pass(doc) == extract_loop(doc, room_rows(doc), InitialRoomType, <<>>)

\* pd.DataFrame(room_data): the columns are the keys of all the records, a
\* record's missing keys are NaN
DataFrame(rooms) ==
    LET columns == UNION {DOMAIN rooms[k] : k \in 1..Len(rooms)}
    IN  [columns |-> columns,
         rows |-> [k \in 1..Len(rooms) |->
                      [c \in columns |->
                          IF c \in DOMAIN rooms[k] THEN rooms[k][c] ELSE "NaN"]]]

----------------------------------------------------------------------------
(* The parser object and its operations.  `file` is what html_path holds   *)
(* on disk (None: it cannot be opened), `returned` what the last call      *)
(* returned or raised, `loads` the number of load_html calls it made,      *)
(* `passes` the number of passes started on the tree now held (0, 1, or 2  *)
(* for two and more), and current_room_type the loop-local of the last     *)
(* pass as that pass left it.                                              *)

NoResult == [kind |-> "none"]

Raised(exc) == [kind |-> "raise", exc |-> exc]

Init ==
    /\ file \in {None} \cup {Some(d) : d \in Docs}
    /\ soup = None
    /\ returned = NoResult
    /\ lastOp = "__init__"
    /\ loads = 0
    /\ passes = 0
    /\ current_room_type = None

\* a guard that reloads on every pass
always_reload(s) == TRUE

\* if not self.soup: a parsed tree is true even when it is empty
not_soup(s) == s = None

load_html ==
    /\ lastOp' = "load_html"
    /\ loads' = 1
    /\ UNCHANGED <<file, current_room_type>>
    /\ IF file = None
       THEN soup' = soup /\ returned' = Raised("OSError") /\ UNCHANGED passes
       ELSE soup' = file /\ returned' = NoResult /\ passes' = 0

RoomList(rooms) == [kind |-> "rooms", value |-> rooms]

Frame(rooms) == [kind |-> "frame", value |-> DataFrame(rooms)]

\* the body of extract_room_data, called as `op`: by the caller, or by
\* get_availability_table, which returns the list as a DataFrame
Pass(op) ==
    /\ lastOp' = op
    /\ UNCHANGED file
    /\ loads' = IF not_soup(soup) THEN 1 ELSE 0
    /\ IF not_soup(soup) /\ file = None
       THEN /\ returned' = Raised("OSError")
            /\ UNCHANGED <<soup, passes, current_room_type>>
       ELSE /\ soup' = IF not_soup(soup) THEN file ELSE soup
            /\ passes' = IF not_soup(soup) THEN 1
                         ELSE IF passes = 0 THEN 1 ELSE 2
            /\ \E r \in {extract_pass(soup'[1])} :
                   /\ current_room_type' = r.current
                   /\ returned' = IF r.exc # None THEN Raised(r.exc[1])
                                  ELSE IF op = "get_availability_table"
                                       THEN Frame(r.rooms)
                                       ELSE RoomList(r.rooms)

extract_room_data == Pass("extract_room_data")

get_availability_table == Pass("get_availability_table")

\* the saved page loses its leading element
edit_file ==
    /\ file # None
    /\ file[1] # <<>>
    /\ file' = Some(Tail(file[1]))
    /\ UNCHANGED <<soup, returned, lastOp, loads, passes, current_room_type>>

Next ==
    \/ load_html
    \/ extract_room_data
    \/ get_availability_table
    \/ edit_file

Spec == Init /\ [][Next]_vars

----------------------------------------------------------------------------
(* What the properties speak of: the tree a pass ran on, its rows, a row's *)
(* own label, the panel that follows a row, the description that follows a *)
(* panel's heading.                                                        *)

Tree == soup[1]

RowsOf(doc) == {i \in 1..Len(doc) : doc[i].kind = "row"}

NumRows(doc) == Cardinality(RowsOf(doc))

\* the position of the k-th row
NthRow(doc, k) ==
    CHOOSE i \in RowsOf(doc) : Cardinality({j \in RowsOf(doc) : j < i}) = k - 1

\* the row shows a label, other than the sentinel text
OwnLabel(row) == row.label # None /\ row.label[1] # "N/A"

\* extract_room_data has just run against a tree
PassRan == lastOp = "extract_room_data" /\ soup # None

\* extract_room_data has just returned its list
Emitted == lastOp = "extract_room_data" /\ returned.kind = "rooms"

IsPanel(e) == e.kind = "template" /\ StartsWith(e.id, PolicyPrefix)

\* the first panel after position i, as a set of at most one position
PanelAfter(doc, i) ==
    {p \in (i+1)..Len(doc) :
        IsPanel(doc[p]) /\ \A q \in (i+1)..(p-1) : ~IsPanel(doc[q])}

\* the first description block at or after template t
DescriptionAfter(doc, t) ==
    {j \in t..Len(doc) :
        /\ doc[j].kind = "template" /\ doc[j].desc # None
        /\ \A q \in t..(j-1) : doc[q].kind # "template" \/ doc[q].desc = None}

\* the meals text the panel of the row at i gives, as a set of at most one
MealsText(doc, i) ==
    {doc[j].desc[1] : j \in UNION {DescriptionAfter(doc, p) :
                                      p \in {q \in PanelAfter(doc, i) : doc[q].meals}}}

MentionsBreakfast(text) ==
    \E i \in 1..Len(text) :
        i + 8 <= Len(text)
        /\ Lower(SubSeq(text, i, i + 8)) = <<"b","r","e","a","k","f","a","s","t">>

GreenIcon(row) ==
    row.icon # None /\ row.icon[1].fill # None /\ Lower(row.icon[1].fill[1]) = Green

\* the last option of the row's selector shows a price
PricedLastOption(row) ==
    /\ row.select # None
    /\ Len(row.select[1]) > 1
    /\ \E c \in 1..Len(row.select[1][Len(row.select[1])]) :
           row.select[1][Len(row.select[1])][c] = "$"

----------------------------------------------------------------------------
(* C1: a pass over a loaded tree returns exactly one record per row, the   *)
(* k-th record being that of the k-th row: it shows the k-th row's own     *)
(* label whenever that row has one.                                        *)
C1_OneRecordPerRow ==
    PassRan =>
        /\ returned.kind = "rooms"
        /\ Len(returned.value) = NumRows(Tree)
        /\ \A k \in 1..NumRows(Tree) :
               OwnLabel(Tree[NthRow(Tree, k)]) =>
                   returned.value[k]["room_type"] = Tree[NthRow(Tree, k)].label[1]

(* C2: in the records of a pass, a row without a label of its own that     *)
(* comes after a labelled row has the room_type of the nearest labelled    *)
(* row before it, and no record after the first has room_type 'N/A'.       *)
C2_CarryForward ==
    Emitted =>
        \A k \in 1..Len(returned.value) :
            LET i == NthRow(Tree, k)
                before == {j \in RowsOf(Tree) : j < i /\ OwnLabel(Tree[j])}
            IN  /\ (~OwnLabel(Tree[i]) /\ before # {}) =>
                       \E j \in before :
                           /\ \A h \in before : h <= j
                           /\ returned.value[k]["room_type"] = Tree[j].label[1]
                /\ k > 1 => returned.value[k]["room_type"] # "N/A"

\* an unlabelled third row took "Twin" from the second row, not "Deluxe"
\* from the first
C2_Witness ==
    /\ Emitted
    /\ Len(returned.value) = 3
    /\ Tree[1].label = Some("Deluxe")
    /\ Tree[2].label = Some("Twin")
    /\ ~OwnLabel(Tree[3])
    /\ returned.value[3]["room_type"] = "Twin"

(* C3: a pass over a tree whose first row has no label does not crash: it  *)
(* returns a record for every row, the first with a room_type.             *)
C3_UnlabelledFirstRow ==
    (PassRan /\ NumRows(Tree) > 0 /\ Tree[NthRow(Tree, 1)].label = None) =>
        /\ returned.kind = "rooms"
        /\ Len(returned.value) = NumRows(Tree)
        /\ "room_type" \in DOMAIN returned.value[1]

(* C4: every record has a price_per_unit, which is 'N/A' unless            *)
(* available_units > 0 and the last option's text holds a '$'.             *)
C4_PricePerUnit ==
    Emitted =>
        \A k \in 1..Len(returned.value) :
            /\ "price_per_unit" \in DOMAIN returned.value[k]
            /\ ~(returned.value[k]["available_units"] > 0
                 /\ PricedLastOption(Tree[NthRow(Tree, k)]))
               => returned.value[k]["price_per_unit"] = "N/A"

(* C5: whatever the number of options of a selector, none included, the    *)
(* pass is not aborted and available_units is 0 without a selector, the    *)
(* number of options minus one with one, and never negative.  (Trees whose *)
(* first row shows a label, so that the room type is not what fails.)      *)
C5_AvailableUnits ==
    (PassRan /\ NumRows(Tree) > 0 /\ OwnLabel(Tree[NthRow(Tree, 1)])) =>
        /\ returned.kind = "rooms"
        /\ \A k \in 1..Len(returned.value) :
               LET select == Tree[NthRow(Tree, k)].select
               IN  /\ returned.value[k]["available_units"] >= 0
                   /\ returned.value[k]["available_units"] =
                          IF select = None THEN 0 ELSE Len(select[1]) - 1

(* C6: breakfast_included is 'Yes' when the row's icon is green, whatever   *)
(* the panel holds; otherwise it is 'Yes' exactly when the panel's meals   *)
(* text mentions breakfast, in any case of letters, and 'No' if not.       *)
C6_BreakfastOr ==
    Emitted =>
        \A k \in 1..Len(returned.value) :
            LET i == NthRow(Tree, k)
            IN  returned.value[k]["breakfast_included"] =
                    IF GreenIcon(Tree[i]) THEN "Yes"
                    ELSE IF \E t \in MealsText(Tree, i) : MentionsBreakfast(t)
                         THEN "Yes"
                         ELSE "No"

\* of two rows before a panel that offers lunch only, the one with the
\* green icon is 'Yes' and the one with the red icon is 'No'
C6_Witness ==
    /\ Emitted
    /\ \E k \in 1..Len(returned.value) :
           /\ GreenIcon(Tree[NthRow(Tree, k)])
           /\ MealsText(Tree, NthRow(Tree, k)) = {LunchText}
           /\ returned.value[k]["breakfast_included"] = "Yes"
    /\ \E k \in 1..Len(returned.value) :
           /\ Tree[NthRow(Tree, k)].icon = Some([fill |-> Some(Red)])
           /\ MealsText(Tree, NthRow(Tree, k)) = {LunchText}
           /\ returned.value[k]["breakfast_included"] = "No"

(* C7: meals_included is 'Not specified' without a panel, 'No meals        *)
(* included' with a panel that has no Meals heading, 'Not specified' with  *)
(* a heading that no description block follows, and the text of the first  *)
(* description block that follows the heading otherwise.                   *)
C7_MealsIncluded ==
    Emitted =>
        \A k \in 1..Len(returned.value) :
            LET i == NthRow(Tree, k)
                meals == returned.value[k]["meals_included"]
            IN  /\ PanelAfter(Tree, i) = {} => meals = "Not specified"
                /\ \A p \in PanelAfter(Tree, i) :
                       /\ ~Tree[p].meals => meals = "No meals included"
                       /\ (Tree[p].meals /\ DescriptionAfter(Tree, p) = {})
                              => meals = "Not specified"
                       /\ \A j \in DescriptionAfter(Tree, p) :
                              Tree[p].meals => meals = Str(Tree[j].desc[1])

\* a heading with no description of its own took the text of the
\* description block that follows it in a later template
C7_Witness ==
    /\ Emitted
    /\ \E k \in 1..Len(returned.value) :
           \E p \in PanelAfter(Tree, NthRow(Tree, k)) :
               /\ Tree[p].meals
               /\ Tree[p].desc = None
               /\ DescriptionAfter(Tree, p) # {}
               /\ returned.value[k]["meals_included"] = "Breakfast included"

(* C8: two passes in a row over the same held tree return the same list,   *)
(* and no pass hands the room type it ended with to the next: a first row  *)
(* without a label never gets the room type an earlier pass ended with.    *)
C8_PassesIndependent ==
    [][(lastOp' = "extract_room_data" /\ soup # None /\ file' = file) =>
           /\ lastOp = "extract_room_data" =>
                  (soup' = soup /\ returned' = returned)
           /\ (/\ returned'.kind = "rooms"
               /\ NumRows(soup'[1]) > 0
               /\ ~OwnLabel(soup'[1][NthRow(soup'[1], 1)])
               /\ current_room_type # None)
              => returned'.value[1]["room_type"] # current_room_type[1]]_vars

\* a second pass over the same tree returned records, one with a carried
\* room type
C8_Witness ==
    /\ Emitted
    /\ passes = 2
    /\ loads = 0
    /\ Len(returned.value) >= 2
    /\ ~OwnLabel(Tree[NthRow(Tree, 2)])
    /\ returned.value[2]["room_type"] = "Twin"

(* C9: a pass calls load_html once when no tree is held and not at all     *)
(* when one is: it then works on the held tree, whatever the file holds    *)
(* by now; when the file cannot be loaded the pass raises, holds no tree   *)
(* and returns no records.                                                 *)
C9_LoadsAtMostOnce ==
    [][(lastOp' \in {"extract_room_data", "get_availability_table"}
        /\ file' = file) =>
           /\ loads' = IF soup = None THEN 1 ELSE 0
           /\ soup # None => soup' = soup
           /\ (soup = None /\ file # None) => soup' = file
           /\ (soup = None /\ file = None) =>
                  (soup' = None /\ returned'.kind = "raise")]_vars

\* a pass ran on the held tree after the file had changed: it returned the
\* held tree's records
C9_Witness ==
    /\ Emitted
    /\ loads = 0
    /\ file # None
    /\ file # soup
    /\ Len(returned.value) = NumRows(Tree)
    /\ NumRows(file[1]) < NumRows(Tree)

(* C10: the panel of a row is the first one after it, however far: two     *)
(* rows with no panel between them get the same meals_included, and the    *)
(* same breakfast_included when neither has a green icon; 'No meals        *)
(* included' comes from a panel without heading wherever it follows; a row *)
(* with no panel after it gets 'Not specified'.                            *)
C10_PanelAnywhereAfter ==
    Emitted =>
        \A k \in 1..Len(returned.value) :
            LET i == NthRow(Tree, k)
            IN  /\ \A m \in (k+1)..Len(returned.value) :
                       LET j == NthRow(Tree, m)
                       IN  (\A q \in (i+1)..(j-1) : ~IsPanel(Tree[q])) =>
                               /\ returned.value[k]["meals_included"] =
                                      returned.value[m]["meals_included"]
                               /\ (~GreenIcon(Tree[i]) /\ ~GreenIcon(Tree[j])) =>
                                      returned.value[k]["breakfast_included"] =
                                          returned.value[m]["breakfast_included"]
                /\ (\E p \in (i+1)..Len(Tree) : IsPanel(Tree[p]) /\ ~Tree[p].meals
                        /\ \A q \in (i+1)..(p-1) : ~IsPanel(Tree[q]))
                       => returned.value[k]["meals_included"] = "No meals included"
                /\ (\A p \in (i+1)..Len(Tree) : ~IsPanel(Tree[p]))
                       => returned.value[k]["meals_included"] = "Not specified"

\* the first of two rows took meals and breakfast from the panel that
\* follows the second
C10_Witness ==
    /\ Emitted
    /\ Len(Tree) = 3
    /\ Tree[1].kind = "row" /\ Tree[2].kind = "row" /\ IsPanel(Tree[3])
    /\ Tree[1].icon = None
    /\ returned.value[1]["meals_included"] = "Breakfast included"
    /\ returned.value[1]["breakfast_included"] = "Yes"

====
